---------------------------- MODULE Spec2Model ----------------------------
(* dk-open/ring: the lock-free bounded queue (queue.go, two-step variant)   *)
(* and the broadcast disruptor (disruptor.go, reader worker), modelled at   *)
(* the granularity of one shared-memory access per step.                    *)
EXTENDS Integers, Sequences, FiniteSets, TLC

(* ------------------------------ bounds --------------------------------- *)
\* Largest capacity argument handed to a constructor in the concurrent runs.
MaxCap == 2
\* Largest capacity argument handed to a constructor in SpecCtor.
MaxCapArg == 40
\* Number of items reserved (enqueued successfully) in a run.
MaxItems == 2
\* Failed tries explored per MustEnqueue call in the concurrent runs.
MaxRetry == 1
\* Idle polls explored per reader worker between two deliveries.
MaxIdle == 1
\* MinBarrier.Load called on its own: most members, largest member value.
MaxMembers == 3
MaxSeq == 3
\* The slot index computed on its own: capacities 2^0 .. 2^MaxCapExp, sequence
\* values 0 .. MaxSlotSeq and the same number of values below the wrap-around.
MaxCapExp == 3
MaxSlotSeq == 40
\* The sleep of the backoff ladders computed on its own: attempts from the
\* first sleeping one up to MaxAttempt, and the last one before the error.
MaxAttempt == 90
\* Thread populations of the harness: <<producers, consumers>> of a queue,
\* <<producers, readers>> of a disruptor.
ProducerIds == {1, 2}
ConsumerIds == {1, 2}
ReaderIds == {1, 2}
QueueThreads == {<<1, 1>>, <<1, 2>>, <<2, 1>>}
DisruptorThreads == {<<1, 0>>, <<1, 1>>, <<1, 2>>, <<2, 1>>}

(* ------------------------ uint64 arithmetic ---------------------------- *)
\* The counters are uint64. Every value the bounds allow is far below 2^30,
\* so a 30-bit word shows the same wrap-around of a - b for a < b.
Modulus == 2^30

Add(a, b) == (a + b) % Modulus

Sub(a, b) == (a - b + Modulus) % Modulus

Mul(a, b) == (a * b) % Modulus

RECURSIVE BitAnd(_, _)
BitAnd(a, b) ==
  IF a = 0 \/ b = 0 THEN 0
  ELSE (a % 2) * (b % 2) + 2 * BitAnd(a \div 2, b \div 2)

Shr1(a) == a \div 2

\* Mutant: the mask is applied before the shift.
SlotIndexMaskFirst(seq, mask) == Shr1(BitAnd(seq, mask))

\* Mutant: the sequence is masked without the shift.
SlotIndexNoShift(seq, mask) == BitAnd(seq, mask)

\* head>>1&q.capMask: Go gives >> and & one precedence, left to right.
SlotIndex(seq, mask) == BitAnd(Shr1(seq), mask)

(* ------------------------------ state ---------------------------------- *)
VARIABLES
  ctor,          \* the constructor that ran: "none" | "queue" | "disruptor"
  err,           \* the error it returned: "nil" | "ErrCapacity"
  capArg,        \* the capacity argument the constructor was given
  cap, capMask, capX2,
  buffer,        \* slot index -> value, 0 is T's zero value
  head, tail,    \* queue.head, queue.tail
  writerCursor,  \* disruptor.writerCursor
  rtail,         \* reader -> disruptorReader.tail (the members of readerBarrier)
  cancelled,     \* ctx.Done() is closed
  panicked,      \* a goroutine panicked: the process is gone
  overlap,       \* harness: may calls overlap in time
  prod,          \* producer thread -> locals of its Enqueue / MustEnqueue call
  cons,          \* consumer thread -> locals of its Dequeue call
  rdr,           \* reader -> locals of its worker goroutine
  casOK,         \* items in the order of their successful reserving CAS
  enqOK,         \* items whose enqueue returned success, in return order
  deqOK,         \* values returned by successful Dequeue calls, in return order
  delivered,     \* reader -> values handed to its callback, in call order
  applied        \* a function called on its own: name, arguments, result

ring == <<cap, capMask, capX2, buffer, head, tail, writerCursor, rtail>>
threads == <<prod, cons, rdr>>
hist == <<casOK, enqOK, deqOK, delivered>>
vars == <<ctor, err, capArg, ring, cancelled, panicked, overlap, threads, hist,
          applied>>

\* No function is being called on its own.
NotApplied == [fn |-> "none", arg |-> <<>>, done |-> FALSE, panics |-> FALSE, res |-> 0]

IdleProducer ==
  [pc |-> "idle", op |-> "none", item |-> 0, head |-> 0, min |-> 0, i |-> 0,
   attempt |-> 0, ret |-> "none", wrote |-> <<>>, curs |-> <<>>, n |-> 0]

IdleConsumer == [pc |-> "idle", tail |-> 0, head |-> 0, res |-> 0, ret |-> "none"]

\* A call of the thread in state s has returned r: its locals are gone; n
\* counts the thread's successful enqueues.
Return(s, r) ==
  [IdleProducer EXCEPT !.ret = r,
                       !.n = IF r \in {"true", "nil"} THEN s.n + 1 ELSE s.n]

ReturnDequeue(r) == [IdleConsumer EXCEPT !.ret = r]

\* late counts the callback invocations the worker started after ctx.Done()
\* was closed (a history field: the code does not read it).
FreshReader == [pc |-> "select", tail |-> 0, head |-> 0, attempt |-> 0, late |-> 0]

\* No constructor has run yet.
Unbuilt ==
  /\ ctor = "none" /\ err = "nil" /\ capArg = 0
  /\ cap = 0 /\ capMask = 0 /\ capX2 = 0
  /\ buffer = <<>>
  /\ head = 0 /\ tail = 0 /\ writerCursor = 0
  /\ rtail = <<>>
  /\ cancelled = FALSE /\ panicked = FALSE /\ overlap = FALSE
  /\ prod = <<>> /\ cons = <<>> /\ rdr = <<>>
  /\ casOK = <<>> /\ enqOK = <<>> /\ deqOK = <<>>
  /\ delivered = <<>>

Init == Unbuilt /\ applied = NotApplied

(* --------------------------- constructors ------------------------------ *)
\* Mutant: the zero test is forgotten.
BadCapacityNoZeroTest(capacity) == BitAnd(capacity, Sub(capacity, 1)) # 0

\* capacity <= 0 || capacity&(capacity-1) != 0
BadCapacity(capacity) == capacity <= 0 \/ BitAnd(capacity, Sub(capacity, 1)) # 0

\* The fields both constructors set from a valid capacity.
RingFields(capacity) ==
  /\ buffer' = [i \in 0 .. capacity - 1 |-> 0]
  /\ capMask' = Sub(capacity, 1)
  /\ cap' = capacity
  /\ capX2' = Sub(Mul(capacity, 2), 1)

\* Queue[T](capacity), then np producer and nc consumer threads use the handle.
Queue(capacity, np, nc, ov) ==
  /\ ctor = "none"
  /\ ctor' = "queue"
  /\ capArg' = capacity
  /\ IF BadCapacity(capacity)
     THEN /\ err' = "ErrCapacity"
          /\ UNCHANGED <<ring, overlap, threads>>
     ELSE /\ err' = "nil"
          /\ RingFields(capacity)
          /\ prod' = [p \in 1 .. np |-> IdleProducer]
          /\ cons' = [c \in 1 .. nc |-> IdleConsumer]
          /\ overlap' = ov
          /\ UNCHANGED <<head, tail, writerCursor, rtail, rdr>>
  /\ UNCHANGED <<applied, cancelled, panicked, hist>>

\* Disruptor[T](ctx, capacity, readers...): runReader starts one worker per
\* callback, only after the capacity check passed.
Disruptor(capacity, nr, np, ov) ==
  /\ ctor = "none"
  /\ ctor' = "disruptor"
  /\ capArg' = capacity
  /\ IF BadCapacity(capacity)
     THEN /\ err' = "ErrCapacity"
          /\ UNCHANGED <<ring, overlap, threads, delivered>>
     ELSE /\ err' = "nil"
          /\ RingFields(capacity)
          /\ rdr' = [r \in 1 .. nr |-> FreshReader]
          /\ rtail' = [r \in 1 .. nr |-> 0]
          /\ delivered' = [r \in 1 .. nr |-> <<>>]
          /\ prod' = [p \in 1 .. np |-> IdleProducer]
          /\ overlap' = ov
          /\ UNCHANGED <<head, tail, writerCursor, cons>>
  /\ UNCHANGED <<applied, cancelled, panicked, casOK, enqOK, deqOK>>

(* ------------------------------ harness -------------------------------- *)
AllIdle ==
  /\ \A p \in DOMAIN prod : prod[p].pc = "idle"
  /\ \A c \in DOMAIN cons : cons[c].pc = "idle"

\* A thread may enter a call: always when calls may overlap, otherwise only
\* while no other call is in progress.
MayStart == ~panicked /\ (overlap \/ AllIdle)

\* The k-th item (k = 0, 1, ...) of producer thread p: unique and never the
\* zero value. A thread offers an item again until an enqueue of it succeeds.
ItemOf(p, k) == p + k * Cardinality(ProducerIds)

InFlight == {p \in DOMAIN prod : prod[p].pc # "idle" /\ prod[p].curs = <<>>}

\* Producer thread p calls op ("Enqueue" or "MustEnqueue") with its next
\* item, in a run followed through `limit` reservations.
CallUpTo(p, op, limit) ==
  /\ ctor \in {"queue", "disruptor"} /\ MayStart
  /\ p \in DOMAIN prod /\ prod[p].pc = "idle"
  /\ Len(casOK) + Cardinality(InFlight) < limit
  /\ prod' = [prod EXCEPT ![p] =
       [prod[p] EXCEPT !.pc = "loadHead", !.op = op, !.ret = "none",
                       !.item = ItemOf(p, prod[p].n)]]
  /\ UNCHANGED <<applied, ctor, err, capArg, ring, cancelled, panicked, overlap, cons, rdr, hist>>

Call(p, op) == CallUpTo(p, op, MaxItems)

\* Consumer thread c calls Dequeue. A run is followed until more values have
\* been dequeued than items exist.
CallDequeue(c) ==
  /\ ctor = "queue" /\ MayStart
  /\ c \in DOMAIN cons /\ cons[c].pc = "idle"
  /\ Len(deqOK) <= MaxItems
  /\ cons' = [cons EXCEPT ![c] = [IdleConsumer EXCEPT !.pc = "loadTail"]]
  /\ UNCHANGED <<applied, ctor, err, capArg, ring, cancelled, panicked, overlap, prod, rdr, hist>>

(* --------------------------- backoff ladder ---------------------------- *)
SpinBelow == 5
YieldBelow == 20
GiveUpAt == 10000

\* Mutant: the sleep rung takes attempt 10000 too.
enqueueBackoffOneLate(attempt) ==
  IF attempt < SpinBelow THEN "spin"
  ELSE IF attempt < YieldBelow THEN "yield"
  ELSE IF attempt <= GiveUpAt THEN "sleep"
  ELSE "err"

\* enqueueBackoff(attempt): which rung of the ladder the attempt lands on.
enqueueBackoff(attempt) ==
  IF attempt < SpinBelow THEN "spin"
  ELSE IF attempt < YieldBelow THEN "yield"
  ELSE IF attempt < GiveUpAt THEN "sleep"
  ELSE "err"

\* time.Duration is an int64 count of nanoseconds. A Duration is modelled by
\* the set of the positions of its one bits, bit 63 being the sign.
DurationBits == 64
Microsecond == 1000
MaxSleep == 5000000
MaxReaderSleep == 1000000

\* The one bits of a non-negative value below 2^30.
BitsOf(x) == {i \in 0 .. 29 : (x \div 2^i) % 2 = 1}

\* x << k on a 64-bit word: bits shifted beyond the width are lost, and a
\* shift count of the width or more leaves zero.
ShiftLeft(x, k) == {i + k : i \in BitsOf(x)} \cap (0 .. DurationBits - 1)

IsNegative(w) == (DurationBits - 1) \in w

\* The value of a word with no bit from 2^30 up.
RECURSIVE ValueOf(_)
ValueOf(w) ==
  IF w = {} THEN 0
  ELSE LET i == CHOOSE j \in w : TRUE IN 2^i + ValueOf(w \ {i})

\* d > limit on int64, for a limit below 2^30.
GreaterThan(w, limit) ==
  /\ ~IsNegative(w)
  /\ \/ w \ (0 .. 29) # {}
     \/ ValueOf(w) > limit

\* d := time.Microsecond << uint(attempt-20); if d > limit { d = limit };
\* time.Sleep(d). The nanoseconds handed to time.Sleep, -1 for any negative
\* duration (time.Sleep returns at once for d <= 0).
SleepFor(attempt, limit) ==
  LET d == ShiftLeft(Microsecond, attempt - YieldBelow)
  IN IF GreaterThan(d, limit) THEN limit
     ELSE IF IsNegative(d) THEN -1
     ELSE ValueOf(d)

(* ------------------------------- queue --------------------------------- *)
\* Mutant: the publishing store writes nextHead, not nextHead + 1.
PublishedNoIncrement(h) == Add(h, 1)

\* nextHead := head + 1; ...Store(nextHead + 1)
Published(h) == Add(Add(h, 1), 1)

\* Mutant: the ring takes one item more before it counts as full.
QueueFullOneLate(h, t) == Sub(h, t) > capX2 + 1

\* Mutant: the fullness test compares with 2 * capacity.
QueueFullAtTwiceCap(h, t) == Sub(h, t) >= capX2 + 1

\* head-q.tail.Load() >= q.capX2
QueueFull(h, t) == Sub(h, t) >= capX2

\* queue.Enqueue, one shared-memory access per step.
QueueEnqueue(p) ==
  /\ ctor = "queue" /\ ~panicked
  /\ p \in DOMAIN prod /\ prod[p].op = "Enqueue"
  /\ \/ /\ prod[p].pc = "loadHead"
        /\ prod' = [prod EXCEPT ![p].head = head, ![p].pc = "loadTail"]
        /\ UNCHANGED <<ring, hist>>
     \/ /\ prod[p].pc = "loadTail"
        /\ prod' = IF QueueFull(prod[p].head, tail)
                   THEN [prod EXCEPT ![p] = Return(prod[p], "false")]
                   ELSE [prod EXCEPT ![p].pc = "cas"]
        /\ UNCHANGED <<ring, hist>>
     \/ /\ prod[p].pc = "cas"
        /\ IF head = prod[p].head
           THEN /\ head' = Add(prod[p].head, 1)
                /\ prod' = [prod EXCEPT ![p].pc = "write",
                              ![p].curs = Append(@, Add(prod[p].head, 1))]
                /\ casOK' = Append(casOK, prod[p].item)
           ELSE /\ prod' = [prod EXCEPT ![p] = Return(prod[p], "false")]
                /\ UNCHANGED <<head, casOK>>
        /\ UNCHANGED <<cap, capMask, capX2, buffer, tail, writerCursor, rtail,
                       enqOK, deqOK, delivered>>
     \/ /\ prod[p].pc = "write"
        /\ buffer' = [buffer EXCEPT ![SlotIndex(prod[p].head, capMask)] = prod[p].item]
        /\ prod' = [prod EXCEPT ![p].pc = "store",
                      ![p].wrote = Append(@, SlotIndex(prod[p].head, capMask))]
        /\ UNCHANGED <<cap, capMask, capX2, head, tail, writerCursor, rtail, hist>>
     \/ /\ prod[p].pc = "store"
        /\ head' = Published(prod[p].head)
        /\ prod' = [prod EXCEPT ![p] = Return(prod[p], "true")]
        /\ enqOK' = Append(enqOK, prod[p].item)
        /\ UNCHANGED <<cap, capMask, capX2, buffer, tail, writerCursor, rtail,
                       casOK, deqOK, delivered>>
  /\ UNCHANGED <<applied, ctor, err, capArg, cancelled, panicked, overlap, cons, rdr>>

\* The failed try of MustEnqueue: attempt++, enqueueBackoff(attempt), and
\* either the error return or the next turn of the loop.
QueueRetry(s) ==
  IF enqueueBackoff(s.attempt + 1) = "err"
  THEN Return(s, "err")
  ELSE [s EXCEPT !.attempt = s.attempt + 1, !.pc = "loadHead"]

\* queue.MustEnqueue, one shared-memory access per step.
QueueMustEnqueue(p) ==
  /\ ctor = "queue" /\ ~panicked
  /\ p \in DOMAIN prod /\ prod[p].op = "MustEnqueue"
  /\ \/ /\ prod[p].pc = "loadHead"
        /\ prod' = [prod EXCEPT ![p].head = head, ![p].pc = "loadTail"]
        /\ UNCHANGED <<ring, hist>>
     \/ /\ prod[p].pc = "loadTail"
        /\ prod' = IF QueueFull(prod[p].head, tail)
                   THEN [prod EXCEPT ![p] = QueueRetry(prod[p])]
                   ELSE [prod EXCEPT ![p].pc = "cas"]
        /\ UNCHANGED <<ring, hist>>
     \/ /\ prod[p].pc = "cas"
        /\ IF head = prod[p].head
           THEN /\ head' = Add(prod[p].head, 1)
                /\ prod' = [prod EXCEPT ![p].pc = "write",
                              ![p].curs = Append(@, Add(prod[p].head, 1))]
                /\ casOK' = Append(casOK, prod[p].item)
           ELSE /\ prod' = [prod EXCEPT ![p] = QueueRetry(prod[p])]
                /\ UNCHANGED <<head, casOK>>
        /\ UNCHANGED <<cap, capMask, capX2, buffer, tail, writerCursor, rtail,
                       enqOK, deqOK, delivered>>
     \/ /\ prod[p].pc = "write"
        /\ buffer' = [buffer EXCEPT ![SlotIndex(prod[p].head, capMask)] = prod[p].item]
        /\ prod' = [prod EXCEPT ![p].pc = "store",
                      ![p].wrote = Append(@, SlotIndex(prod[p].head, capMask))]
        /\ UNCHANGED <<cap, capMask, capX2, head, tail, writerCursor, rtail, hist>>
     \/ /\ prod[p].pc = "store"
        /\ head' = Published(prod[p].head)
        /\ prod' = [prod EXCEPT ![p] = Return(prod[p], "nil")]
        /\ enqOK' = Append(enqOK, prod[p].item)
        /\ UNCHANGED <<cap, capMask, capX2, buffer, tail, writerCursor, rtail,
                       casOK, deqOK, delivered>>
  /\ UNCHANGED <<applied, ctor, err, capArg, cancelled, panicked, overlap, cons, rdr>>

\* Mutant: the empty queue is not told from a queue with a write in flight.
QueueEmptyNever(t, h) == FALSE

\* tail == head
QueueEmpty(t, h) == t = h

\* Mutant: an odd tail (another consumer draining) is not waited for.
DequeueMustWaitNoOddTest(t, h) == Sub(h, t) < 2

\* tail&1 == 1 || head-tail < 2
DequeueMustWait(t, h) == BitAnd(t, 1) = 1 \/ Sub(h, t) < 2

\* queue.Dequeue, one shared-memory access per step; "yield" is the
\* runtime.Gosched() before the loop's next turn.
QueueDequeue(c) ==
  /\ ctor = "queue" /\ ~panicked
  /\ c \in DOMAIN cons
  /\ \/ /\ cons[c].pc = "loadTail"
        /\ cons' = [cons EXCEPT ![c].tail = tail, ![c].pc = "loadHead"]
        /\ UNCHANGED <<ring, hist>>
     \/ /\ cons[c].pc = "loadHead"
        /\ cons' = IF QueueEmpty(cons[c].tail, head)
                   THEN [cons EXCEPT ![c] = ReturnDequeue("false")]
                   ELSE IF DequeueMustWait(cons[c].tail, head)
                   THEN [cons EXCEPT ![c].head = head, ![c].pc = "yield"]
                   ELSE [cons EXCEPT ![c].head = head, ![c].pc = "cas"]
        /\ UNCHANGED <<ring, hist>>
     \/ /\ cons[c].pc = "yield"
        /\ cons' = [cons EXCEPT ![c].pc = "loadTail"]
        /\ UNCHANGED <<ring, hist>>
     \/ /\ cons[c].pc = "cas"
        /\ IF tail = cons[c].tail
           THEN /\ tail' = Add(cons[c].tail, 1)
                /\ cons' = [cons EXCEPT ![c].pc = "read"]
           ELSE /\ cons' = [cons EXCEPT ![c].pc = "yield"]
                /\ UNCHANGED tail
        /\ UNCHANGED <<cap, capMask, capX2, buffer, head, writerCursor, rtail, hist>>
     \/ /\ cons[c].pc = "read"
        /\ cons' = [cons EXCEPT ![c].res = buffer[SlotIndex(cons[c].tail, capMask)],
                                ![c].pc = "store"]
        /\ UNCHANGED <<ring, hist>>
     \/ /\ cons[c].pc = "store"
        /\ tail' = Add(Add(cons[c].tail, 1), 1)
        /\ cons' = [cons EXCEPT ![c] = ReturnDequeue("true")]
        /\ deqOK' = Append(deqOK, cons[c].res)
        /\ UNCHANGED <<cap, capMask, capX2, buffer, head, writerCursor, rtail,
                       casOK, enqOK, delivered>>
  /\ UNCHANGED <<applied, ctor, err, capArg, cancelled, panicked, overlap, prod, rdr>>

\* A MustEnqueue call is followed through at most MaxRetry failed tries.
RetryBound == \A p \in DOMAIN prod' : prod'[p].attempt <= MaxRetry

(* ------------------------ queue, one-step variant ---------------------- *)
\* The second queue of queue.go, built by Queue(capacity, concurrentReaders):
\* its fields and constructor are those of the first (concurrentReaders is
\* stored and never read), and so are its MustEnqueue and its Dequeue, line
\* for line.
OneStepMustEnqueue(p) == QueueMustEnqueue(p)

OneStepDequeue(c) == QueueDequeue(c)

\* Enqueue of the one-step variant, one shared-memory access per step: the
\* CAS moves head from head to head+2 and the slot is written afterwards.
OneStepEnqueue(p) ==
  /\ ctor = "queue" /\ ~panicked
  /\ p \in DOMAIN prod /\ prod[p].op = "Enqueue"
  /\ \/ /\ prod[p].pc = "loadHead"
        /\ prod' = [prod EXCEPT ![p].head = head, ![p].pc = "loadTail"]
        /\ UNCHANGED <<ring, hist>>
     \/ /\ prod[p].pc = "loadTail"
        /\ prod' = IF QueueFull(prod[p].head, tail)
                   THEN [prod EXCEPT ![p] = Return(prod[p], "false")]
                   ELSE [prod EXCEPT ![p].pc = "cas"]
        /\ UNCHANGED <<ring, hist>>
     \/ /\ prod[p].pc = "cas"
        /\ IF head = prod[p].head
           THEN /\ head' = Add(prod[p].head, 2)
                /\ prod' = [prod EXCEPT ![p].pc = "write",
                              ![p].curs = Append(@, Add(prod[p].head, 2))]
                /\ casOK' = Append(casOK, prod[p].item)
           ELSE /\ prod' = [prod EXCEPT ![p] = Return(prod[p], "false")]
                /\ UNCHANGED <<head, casOK>>
        /\ UNCHANGED <<cap, capMask, capX2, buffer, tail, writerCursor, rtail,
                       enqOK, deqOK, delivered>>
     \/ /\ prod[p].pc = "write"
        /\ buffer' = [buffer EXCEPT ![SlotIndex(prod[p].head, capMask)] = prod[p].item]
        /\ prod' = [prod EXCEPT ![p] = Return(prod[p], "true")]
        /\ enqOK' = Append(enqOK, prod[p].item)
        /\ UNCHANGED <<cap, capMask, capX2, head, tail, writerCursor, rtail,
                       casOK, deqOK, delivered>>
  /\ UNCHANGED <<applied, ctor, err, capArg, cancelled, panicked, overlap, cons, rdr>>

(* ----------------------------- disruptor ------------------------------- *)
\* backoff(attempt) of disruptor.go: the same ladder as enqueueBackoff.
backoff(attempt) ==
  IF attempt < SpinBelow THEN "spin"
  ELSE IF attempt < YieldBelow THEN "yield"
  ELSE IF attempt < GiveUpAt THEN "sleep"
  ELSE "err"

\* Mutant: the comparison is turned round.
MinStepGreater(i, minimum, seq) ==
  IF i = 1 THEN seq ELSE IF seq > minimum THEN seq ELSE minimum

\* One turn of MinBarrier.Load's reduction: member i holds seq.
MinStep(i, minimum, seq) ==
  IF i = 1 THEN seq ELSE IF seq < minimum THEN seq ELSE minimum

\* The loop of MinBarrier.Load from member i on.
RECURSIVE LoadFrom(_, _, _)
LoadFrom(m, i, minimum) ==
  IF i > Len(m) THEN minimum
  ELSE LoadFrom(m, i + 1, MinStep(i, minimum, m[i]))

\* MinBarrier.Load on members that hold the values m and do not change.
Load(m) == LoadFrom(m, 1, 0)

\* m[0] of an empty MinBarrier is an index out of range.
LoadPanics(m) == Len(m) = 0

\* Mutant: the ring takes one item more before it counts as full.
DisruptorFullOneLate(h, barrier) == Sub(h, barrier) > capX2 + 1

\* diff >> 63 of the uint64 diff: its top bit, 0 or 1 (the counters' word is
\* Modulus wide here, so the shift is by one less than that width).
TopBit(x) == x \div (Modulus \div 2)

\* One turn of branchlessMin's loop: diff := minimum - seq;
\* mask := diff >> 63; minimum = seq + (diff & mask).
BranchlessStep(minimum, seq) ==
  LET diff == Sub(minimum, seq)
      mask == TopBit(diff)
  IN Add(seq, BitAnd(diff, mask))

RECURSIVE BranchlessFrom(_, _, _)
BranchlessFrom(m, i, minimum) ==
  IF i > Len(m) THEN minimum
  ELSE BranchlessFrom(m, i + 1, BranchlessStep(minimum, m[i]))

\* branchlessMin on a non-empty barrier whose members hold the values m.
branchlessMin(m) == BranchlessFrom(m, 2, m[1])

\* head-d.readerBarrier.Load() >= d.capX2
DisruptorFull(h, barrier) == Sub(h, barrier) >= capX2

\* The loads of d.readerBarrier.Load(), one member per step, then the
\* fullness test; `full` is the producer's state when the ring is full.
\* m[0] of an empty MinBarrier is an index out of range: the goroutine panics.
BarrierLoad(p, full) ==
  IF Len(rtail) = 0
  THEN /\ panicked' = TRUE
       /\ prod' = [prod EXCEPT ![p].pc = "panic"]
  ELSE /\ panicked' = panicked
       /\ LET m == MinStep(prod[p].i, prod[p].min, rtail[prod[p].i]) IN
          prod' = IF prod[p].i < Len(rtail)
                  THEN [prod EXCEPT ![p].min = m, ![p].i = prod[p].i + 1]
                  ELSE IF DisruptorFull(prod[p].head, m)
                  THEN [prod EXCEPT ![p] = full]
                  ELSE [prod EXCEPT ![p].min = 0, ![p].i = 0, ![p].pc = "cas"]

\* disruptor.Enqueue, one shared-memory access per step.
DisruptorEnqueue(p) ==
  /\ ctor = "disruptor" /\ ~panicked
  /\ p \in DOMAIN prod /\ prod[p].op = "Enqueue"
  /\ \/ /\ prod[p].pc = "loadHead"
        /\ prod' = [prod EXCEPT ![p].head = writerCursor, ![p].pc = "barrier",
                                ![p].i = 1]
        /\ UNCHANGED <<ring, hist, panicked>>
     \/ /\ prod[p].pc = "barrier"
        /\ BarrierLoad(p, Return(prod[p], "false"))
        /\ UNCHANGED <<ring, hist>>
     \/ /\ prod[p].pc = "cas"
        /\ IF writerCursor = prod[p].head
           THEN /\ writerCursor' = Add(prod[p].head, 1)
                /\ prod' = [prod EXCEPT ![p].pc = "write",
                              ![p].curs = Append(@, Add(prod[p].head, 1))]
                /\ casOK' = Append(casOK, prod[p].item)
           ELSE /\ prod' = [prod EXCEPT ![p] = Return(prod[p], "false")]
                /\ UNCHANGED <<writerCursor, casOK>>
        /\ UNCHANGED <<cap, capMask, capX2, buffer, head, tail, rtail, panicked,
                       enqOK, deqOK, delivered>>
     \/ /\ prod[p].pc = "write"
        /\ buffer' = [buffer EXCEPT ![SlotIndex(prod[p].head, capMask)] = prod[p].item]
        /\ prod' = [prod EXCEPT ![p].pc = "store",
                      ![p].wrote = Append(@, SlotIndex(prod[p].head, capMask))]
        /\ UNCHANGED <<cap, capMask, capX2, head, tail, writerCursor, rtail,
                       panicked, hist>>
     \/ /\ prod[p].pc = "store"
        /\ writerCursor' = Published(prod[p].head)
        /\ prod' = [prod EXCEPT ![p] = Return(prod[p], "true")]
        /\ enqOK' = Append(enqOK, prod[p].item)
        /\ UNCHANGED <<cap, capMask, capX2, buffer, head, tail, rtail, panicked,
                       casOK, deqOK, delivered>>
  /\ UNCHANGED <<applied, ctor, err, capArg, cancelled, overlap, cons, rdr>>

\* MustEnqueue's full branch: backoff(attempt), attempt not incremented.
DisruptorWaitFull(s) ==
  IF backoff(s.attempt) = "err"
  THEN Return(s, "err")
  ELSE [s EXCEPT !.min = 0, !.i = 0, !.pc = "loadHead"]

\* MustEnqueue's lost CAS: attempt++, backoff(attempt).
DisruptorRetry(s) ==
  IF backoff(s.attempt + 1) = "err"
  THEN Return(s, "err")
  ELSE [s EXCEPT !.attempt = s.attempt + 1, !.pc = "loadHead"]

\* disruptor.MustEnqueue, one shared-memory access per step.
DisruptorMustEnqueue(p) ==
  /\ ctor = "disruptor" /\ ~panicked
  /\ p \in DOMAIN prod /\ prod[p].op = "MustEnqueue"
  /\ \/ /\ prod[p].pc = "loadHead"
        /\ prod' = [prod EXCEPT ![p].head = writerCursor, ![p].pc = "barrier",
                                ![p].i = 1]
        /\ UNCHANGED <<ring, hist, panicked>>
     \/ /\ prod[p].pc = "barrier"
        /\ BarrierLoad(p, DisruptorWaitFull(prod[p]))
        /\ UNCHANGED <<ring, hist>>
     \/ /\ prod[p].pc = "cas"
        /\ IF writerCursor = prod[p].head
           THEN /\ writerCursor' = Add(prod[p].head, 1)
                /\ prod' = [prod EXCEPT ![p].pc = "write",
                              ![p].curs = Append(@, Add(prod[p].head, 1))]
                /\ casOK' = Append(casOK, prod[p].item)
           ELSE /\ prod' = [prod EXCEPT ![p] = DisruptorRetry(prod[p])]
                /\ UNCHANGED <<writerCursor, casOK>>
        /\ UNCHANGED <<cap, capMask, capX2, buffer, head, tail, rtail, panicked,
                       enqOK, deqOK, delivered>>
     \/ /\ prod[p].pc = "write"
        /\ buffer' = [buffer EXCEPT ![SlotIndex(prod[p].head, capMask)] = prod[p].item]
        /\ prod' = [prod EXCEPT ![p].pc = "store",
                      ![p].wrote = Append(@, SlotIndex(prod[p].head, capMask))]
        /\ UNCHANGED <<cap, capMask, capX2, head, tail, writerCursor, rtail,
                       panicked, hist>>
     \/ /\ prod[p].pc = "store"
        /\ writerCursor' = Published(prod[p].head)
        /\ prod' = [prod EXCEPT ![p] = Return(prod[p], "nil")]
        /\ enqOK' = Append(enqOK, prod[p].item)
        /\ UNCHANGED <<cap, capMask, capX2, buffer, head, tail, rtail, panicked,
                       casOK, deqOK, delivered>>
  /\ UNCHANGED <<applied, ctor, err, capArg, cancelled, overlap, cons, rdr>>

\* readerYield(attempt): which rung the idle reader lands on.
readerYield(attempt) == IF attempt < YieldBelow THEN "yield" ELSE "sleep"

\* Mutant: the batch loop steps over a sequence.
NextSeqSkips(t) == t + 4

\* tail += 2
NextSeq(t) == t + 2

\* Mutant: the worker never sees the signal.
DoneNeverSeen == FALSE

\* case <-ctx.Done(): the channel is closed.
Done == cancelled

\* The worker goroutine of runReader, one shared access per step. "select"
\* is the loop head (ctx.Done() or default) with the load of the worker's own
\* cursor; "deliver" is one callback invocation of the batch loop.
runReader(r) ==
  /\ ctor = "disruptor" /\ ~panicked
  /\ r \in DOMAIN rdr
  /\ \/ /\ rdr[r].pc = "select"
        /\ rdr' = IF Done
                  THEN [rdr EXCEPT ![r].pc = "exited"]
                  ELSE [rdr EXCEPT ![r].tail = rtail[r], ![r].pc = "loadHead"]
        /\ UNCHANGED <<rtail, delivered>>
     \/ /\ rdr[r].pc = "loadHead"
        /\ rdr' = IF rdr[r].tail + 1 < writerCursor
                  THEN [rdr EXCEPT ![r].head = writerCursor, ![r].pc = "deliver"]
                  ELSE [rdr EXCEPT ![r].attempt = rdr[r].attempt + 1,
                                   ![r].tail = 0, ![r].pc = "select"]
        /\ UNCHANGED <<rtail, delivered>>
     \/ /\ rdr[r].pc = "deliver"
        /\ delivered' = [delivered EXCEPT
                           ![r] = Append(@, buffer[SlotIndex(rdr[r].tail, capMask)])]
        /\ rdr' = [rdr EXCEPT ![r].tail = NextSeq(rdr[r].tail),
                      ![r].pc = IF NextSeq(rdr[r].tail) < rdr[r].head
                                THEN "deliver" ELSE "store",
                      ![r].late = IF cancelled THEN @ + 1 ELSE @]
        /\ UNCHANGED rtail
     \/ /\ rdr[r].pc = "store"
        /\ rtail' = [rtail EXCEPT ![r] = rdr[r].tail]
        /\ rdr' = [rdr EXCEPT ![r] = [FreshReader EXCEPT !.late = rdr[r].late]]
        /\ UNCHANGED delivered
  /\ UNCHANGED <<applied, ctor, err, capArg, cap, capMask, capX2, buffer, head, tail,
                 writerCursor, cancelled, panicked, overlap, prod, cons,
                 casOK, enqOK, deqOK>>

\* An idle reader is followed through at most MaxIdle polls in a row.
IdleBound == \A r \in DOMAIN rdr' : rdr'[r].attempt <= MaxIdle

\* The owner of ctx cancels it.
Cancel ==
  /\ ctor = "disruptor" /\ err = "nil" /\ ~panicked /\ ~cancelled
  /\ cancelled' = TRUE
  /\ UNCHANGED <<applied, ctor, err, capArg, ring, panicked, overlap, threads, hist>>

(* --------------------------- specifications ---------------------------- *)
\* Producers, consumers and reader workers running concurrently on a ring
\* of capacity up to MaxCap.
Next ==
  \/ \E c \in 0 .. MaxCap, t \in QueueThreads, ov \in BOOLEAN :
       Queue(c, t[1], t[2], ov)
  \/ \E c \in 0 .. MaxCap, t \in DisruptorThreads, ov \in BOOLEAN :
       Disruptor(c, t[2], t[1], ov)
  \/ \E p \in ProducerIds, op \in {"Enqueue", "MustEnqueue"} : Call(p, op)
  \/ \E c \in ConsumerIds : CallDequeue(c)
  \/ \E p \in ProducerIds : QueueEnqueue(p)
  \/ \E p \in ProducerIds : QueueMustEnqueue(p) /\ RetryBound
  \/ \E c \in ConsumerIds : QueueDequeue(c)
  \/ \E p \in ProducerIds : DisruptorEnqueue(p)
  \/ \E p \in ProducerIds : DisruptorMustEnqueue(p) /\ RetryBound
  \/ \E r \in ReaderIds : runReader(r) /\ IdleBound
  \/ Cancel

Spec == Init /\ [][Next]_vars

\* The constructors alone, over capacity arguments 0 .. MaxCapArg.
NextCtor ==
  \/ \E c \in 0 .. MaxCapArg, t \in QueueThreads : Queue(c, t[1], t[2], TRUE)
  \/ \E c \in 0 .. MaxCapArg, t \in DisruptorThreads : Disruptor(c, t[2], t[1], TRUE)

SpecCtor == Init /\ [][NextCtor]_vars

\* One producer on a queue whose consumers never run: MustEnqueue is followed
\* through the whole backoff ladder.
NextMust ==
  \/ \E c \in 0 .. MaxCap : Queue(c, 1, 1, TRUE)
  \/ \E op \in {"Enqueue", "MustEnqueue"} : Call(1, op)
  \/ QueueEnqueue(1)
  \/ QueueMustEnqueue(1)

SpecMust == Init /\ [][NextMust]_vars

\* The producer thread is scheduled again after every yield and sleep.
SpecMustFair == SpecMust /\ WF_vars(QueueMustEnqueue(1))

\* A reader worker is followed through at most MaxIdle polls of an empty ring
\* in a row while ctx is live, and through one more once ctx is cancelled:
\* the poll it may be in when the signal comes.
CancelBound ==
  \A r \in DOMAIN rdr' :
    rdr'[r].attempt <= IF cancelled THEN MaxIdle + 1 ELSE MaxIdle

\* One producer on a disruptor with one or two reader workers, the owner of
\* ctx free to cancel at any time; MustEnqueue is followed without a bound
\* on its tries.
NextBroadcast ==
  \/ \E c \in 0 .. MaxCap, nr \in ReaderIds : Disruptor(c, nr, 1, TRUE)
  \/ \E op \in {"Enqueue", "MustEnqueue"} : Call(1, op)
  \/ DisruptorEnqueue(1)
  \/ DisruptorMustEnqueue(1)
  \/ \E r \in ReaderIds : runReader(r) /\ CancelBound
  \/ Cancel

SpecBroadcast == Init /\ [][NextBroadcast]_vars

\* Every goroutine is scheduled again and again: the producer after each
\* backoff, each reader worker after each yield, sleep and callback return.
SpecBroadcastFair ==
  /\ SpecBroadcast
  /\ WF_vars(DisruptorEnqueue(1))
  /\ WF_vars(DisruptorMustEnqueue(1))
  /\ \A r \in ReaderIds : WF_vars(runReader(r) /\ CancelBound)

\* MinBarrier.Load called on its own, as the tests of package pad do, on
\* every barrier of up to MaxMembers members with values up to MaxSeq.
Barriers ==
  {<<>>} \cup UNION {[1 .. n -> 0 .. MaxSeq] : n \in 1 .. MaxMembers}

InitLoad ==
  /\ Unbuilt
  /\ applied \in {[NotApplied EXCEPT !.fn = "MinBarrier.Load", !.arg = m] :
                    m \in Barriers}

CallLoad ==
  /\ applied.fn = "MinBarrier.Load" /\ ~applied.done
  /\ applied' = [applied EXCEPT
                   !.done = TRUE,
                   !.panics = LoadPanics(applied.arg),
                   !.res = IF LoadPanics(applied.arg) THEN 0 ELSE Load(applied.arg)]
  /\ UNCHANGED <<ctor, err, capArg, ring, cancelled, panicked, overlap, threads, hist>>

SpecLoad == InitLoad /\ [][CallLoad]_vars

\* The index expression head>>1&capMask computed on its own for the
\* capacities 1, 2, ..., 2^MaxCapExp and sequence values at both ends of the
\* counter's range.
SlotSeqs == (0 .. MaxSlotSeq) \cup (Modulus - MaxSlotSeq .. Modulus - 1)

InitSlot ==
  /\ Unbuilt
  /\ applied \in {[NotApplied EXCEPT !.fn = "SlotIndex", !.arg = <<q, 2^k>>] :
                    q \in SlotSeqs, k \in 0 .. MaxCapExp}

CallSlotIndex ==
  /\ applied.fn = "SlotIndex" /\ ~applied.done
  /\ applied' = [applied EXCEPT
                   !.done = TRUE,
                   !.res = SlotIndex(applied.arg[1], Sub(applied.arg[2], 1))]
  /\ UNCHANGED <<ctor, err, capArg, ring, cancelled, panicked, overlap, threads, hist>>

SpecSlot == InitSlot /\ [][CallSlotIndex]_vars

\* The sleeping rung of enqueueBackoff, backoff and readerYield called on
\* its own for the attempts YieldBelow .. MaxAttempt and GiveUpAt - 1.
SleepAttempts == (YieldBelow .. MaxAttempt) \cup {GiveUpAt - 1}

InitSleep ==
  /\ Unbuilt
  /\ applied \in {[NotApplied EXCEPT !.fn = f, !.arg = <<a>>] :
                    f \in {"enqueueBackoff", "backoff", "readerYield"},
                    a \in SleepAttempts}

CallSleep ==
  /\ ~applied.done
  /\ \/ /\ applied.fn = "enqueueBackoff"
        /\ enqueueBackoff(applied.arg[1]) = "sleep"
        /\ applied' = [applied EXCEPT !.done = TRUE,
                                      !.res = SleepFor(applied.arg[1], MaxSleep)]
     \/ /\ applied.fn = "backoff"
        /\ backoff(applied.arg[1]) = "sleep"
        /\ applied' = [applied EXCEPT !.done = TRUE,
                                      !.res = SleepFor(applied.arg[1], MaxSleep)]
     \/ /\ applied.fn = "readerYield"
        /\ readerYield(applied.arg[1]) = "sleep"
        /\ applied' = [applied EXCEPT !.done = TRUE,
                                      !.res = SleepFor(applied.arg[1], MaxReaderSleep)]
  /\ UNCHANGED <<ctor, err, capArg, ring, cancelled, panicked, overlap, threads, hist>>

SpecSleep == InitSleep /\ [][CallSleep]_vars

\* Two producers and one consumer on a queue, followed through one more
\* reservation than in Spec: long enough for a producer to be overtaken by
\* a whole Enqueue call of the other one between its CAS and its store.
LapItems == MaxItems + 1

NextLap ==
  \/ \E c \in 0 .. MaxCap : Queue(c, 2, 1, TRUE)
  \/ \E p \in ProducerIds : CallUpTo(p, "Enqueue", LapItems)
  \/ CallDequeue(1)
  \/ \E p \in ProducerIds : QueueEnqueue(p)
  \/ QueueDequeue(1)

SpecLap == Init /\ [][NextLap]_vars

\* branchlessMin called on its own on every non-empty barrier of Barriers.
InitBranchless ==
  /\ Unbuilt
  /\ applied \in {[NotApplied EXCEPT !.fn = "branchlessMin", !.arg = m] :
                    m \in Barriers \ {<<>>}}

CallBranchless ==
  /\ applied.fn = "branchlessMin" /\ ~applied.done
  /\ applied' = [applied EXCEPT !.done = TRUE, !.res = branchlessMin(applied.arg)]
  /\ UNCHANGED <<ctor, err, capArg, ring, cancelled, panicked, overlap, threads, hist>>

SpecBranchless == InitBranchless /\ [][CallBranchless]_vars

\* One producer and one consumer on a queue of the one-step variant, their
\* calls sequential or overlapping.
NextOneStep ==
  \/ \E c \in 0 .. MaxCap, ov \in BOOLEAN : Queue(c, 1, 1, ov)
  \/ \E op \in {"Enqueue", "MustEnqueue"} : Call(1, op)
  \/ CallDequeue(1)
  \/ OneStepEnqueue(1)
  \/ OneStepMustEnqueue(1) /\ RetryBound
  \/ OneStepDequeue(1)

SpecOneStep == Init /\ [][NextOneStep]_vars

\* The worker's poll of a ring with nothing new, after MaxIdle such polls in
\* a row: tail+1 < head fails, readerYield(attempt) returns and the loop
\* turns again. The count of polls is followed no further: every rung of
\* readerYield only delays the worker.
runReaderIdle(r) ==
  /\ ctor = "disruptor" /\ ~panicked
  /\ r \in DOMAIN rdr
  /\ rdr[r].pc = "loadHead" /\ rdr[r].attempt >= MaxIdle
  /\ ~(rdr[r].tail + 1 < writerCursor)
  /\ rdr' = [rdr EXCEPT ![r].tail = 0, ![r].pc = "select"]
  /\ UNCHANGED <<applied, ctor, err, capArg, ring, cancelled, panicked, overlap,
                 prod, cons, hist>>

\* One producer on a disruptor with one or two reader workers that poll for
\* as long as ctx is live.
NextProgress ==
  \/ NextBroadcast
  \/ \E r \in ReaderIds : runReaderIdle(r)

SpecProgress == Init /\ [][NextProgress]_vars

\* The producer is scheduled again after each backoff, each reader worker
\* after each yield, sleep and callback return.
SpecProgressFair ==
  /\ SpecProgress
  /\ WF_vars(DisruptorEnqueue(1))
  /\ WF_vars(DisruptorMustEnqueue(1))
  /\ \A r \in ReaderIds : WF_vars((runReader(r) /\ CancelBound) \/ runReaderIdle(r))

(* ------------------------------ properties ----------------------------- *)
Range(s) == {s[i] : i \in DOMAIN s}

IsPrefix(s, t) == Len(s) <= Len(t) /\ \A i \in DOMAIN s : s[i] = t[i]

NoDup(s) == \A i, j \in DOMAIN s : i # j => s[i] # s[j]

IsPowerOfTwo(c) == \E k \in 0 .. 29 : c = 2^k

\* The cursor producers advance: queue.head or disruptor.writerCursor.
Cursor == IF ctor = "queue" THEN head ELSE writerCursor

\* Producer thread p returns from a call of op in this step.
Returns(p, op) ==
  prod[p].op = op /\ prod[p].pc \notin {"idle", "panic"} /\ prod'[p].pc = "idle"

\* The call of thread p has so far written nothing to the ring.
WroteNothing(p) == prod[p].wrote = <<>> /\ prod[p].curs = <<>>

\* The call of thread p has reserved with one CAS from the value h it loaded
\* and written the one slot of h; this step publishes h + 2.
WroteOneSlot(p) ==
  /\ prod[p].wrote = <<SlotIndex(prod[p].head, capMask)>>
  /\ prod[p].curs = <<prod[p].head + 1>>
  /\ Cursor' = prod[p].head + 2
  /\ buffer' = buffer

\* C1: a constructor returns ErrCapacity, and no handle, exactly when the
\* capacity is 0 or not a power of two; it succeeds for every power of two
\* from 1 on; a Disruptor call that fails has started no reader worker.
C1_CapacityValidated ==
  ctor # "none" =>
    /\ err = "ErrCapacity" <=> ~IsPowerOfTwo(capArg)
    /\ err = "ErrCapacity" =>
         /\ cap = 0 /\ buffer = <<>>
         /\ prod = <<>> /\ cons = <<>> /\ rdr = <<>> /\ rtail = <<>>
    /\ err = "nil" =>
         /\ cap = capArg /\ capMask = capArg - 1 /\ capX2 = 2 * capArg - 1
         /\ DOMAIN buffer = 0 .. capArg - 1

C1_Witness ==
  ctor = "disruptor" /\ capArg = 12 /\ err = "ErrCapacity" /\ rdr = <<>>

\* C2: one producer and one consumer running concurrently on a queue: the
\* values dequeued are always a prefix of the values enqueued, in the same
\* order, and equal to them once both threads are idle and the queue is empty.
C2_FifoOneProducerOneConsumer ==
  (ctor = "queue" /\ Len(prod) = 1 /\ Len(cons) = 1) =>
    /\ IsPrefix(deqOK, enqOK)
    /\ (AllIdle /\ head = tail) => deqOK = enqOK

C2_Witness ==
  /\ ctor = "queue" /\ overlap /\ Len(prod) = 1 /\ Len(cons) = 1
  /\ cap = 1 /\ deqOK = <<ItemOf(1, 0), ItemOf(1, 1)>> /\ AllIdle

\* C3: calls that do not overlap: an Enqueue returns true exactly when the
\* successful enqueues so far exceed the successful dequeues by less than the
\* capacity.
C3_EnqueueIffRoom ==
  [][(ctor = "queue" /\ ~overlap) =>
       \A p \in DOMAIN prod :
         Returns(p, "Enqueue") =>
           (prod'[p].ret = "true" <=> Len(enqOK) - Len(deqOK) < cap)]_vars

C3_Witness ==
  /\ ctor = "queue" /\ ~overlap /\ cap = 1 /\ Len(prod) = 2
  /\ prod[1].pc = "idle" /\ prod[1].ret = "true"
  /\ prod[2].pc = "idle" /\ prod[2].ret = "false"
  /\ enqOK = <<ItemOf(1, 0), ItemOf(1, 1)>> /\ deqOK = <<ItemOf(1, 0)>>

\* C4: two or more producers and consumers running concurrently on a queue:
\* once every call has returned and the queue is drained, the values dequeued
\* are exactly the values whose enqueue reported success, each once.
C4_ExactlyOnceManyProducers ==
  (ctor = "queue" /\ Len(prod) >= 2 /\ AllIdle /\ head = tail) =>
    /\ NoDup(deqOK)
    /\ Range(deqOK) = Range(enqOK)

\* C5: one producer and several consumers running concurrently on a queue:
\* no value is dequeued twice, every value dequeued was enqueued, and once
\* every call has returned and the queue is drained the values dequeued are
\* the values enqueued.
C5_ExactlyOnceOneProducer ==
  (ctor = "queue" /\ Len(prod) = 1) =>
    /\ NoDup(deqOK)
    /\ Range(deqOK) \subseteq Range(enqOK)
    /\ (AllIdle /\ head = tail) => Range(deqOK) = Range(enqOK)

C5_Witness ==
  /\ ctor = "queue" /\ overlap /\ Len(prod) = 1 /\ Len(cons) = 2
  /\ cons[1].pc = "idle" /\ cons[1].ret = "true"
  /\ cons[2].pc = "idle" /\ cons[2].ret = "true"
  /\ Len(deqOK) = 2

\* C6: a disruptor with one producer and no cancellation: the k-th value
\* handed to a reader's callback is the k-th value published, and a reader
\* that has caught up with an idle producer has been handed every one of them.
C6_BroadcastInOrder ==
  (ctor = "disruptor" /\ Len(prod) = 1 /\ ~cancelled) =>
    \A r \in DOMAIN rdr :
      /\ IsPrefix(delivered[r], casOK)
      /\ (AllIdle /\ rdr[r].pc = "select" /\ rtail[r] = writerCursor) =>
           delivered[r] = enqOK

\* C7: a disruptor with two or more producers: every value whose enqueue
\* reported success is handed to every reader exactly once, and every reader
\* is handed the values in one and the same order.
C7_BroadcastManyProducers ==
  (ctor = "disruptor" /\ Len(prod) >= 2 /\ ~cancelled) =>
    \A r \in DOMAIN rdr :
      /\ NoDup(delivered[r])
      /\ IsPrefix(delivered[r], casOK)
      /\ (AllIdle /\ rdr[r].pc = "select" /\ rtail[r] = writerCursor) =>
           Range(delivered[r]) = Range(enqOK)

\* C8: Dequeue never retries: it returns after one pass whatever the other
\* threads do, so it never reaches the yield that precedes another turn of
\* its loop.
C8_DequeueNeverRetries == \A c \in DOMAIN cons : cons[c].pc # "yield"

\* C9: a non-blocking Enqueue, on the queue or on the disruptor, that returns
\* false has written nothing (no cursor, no slot); one that returns true has
\* reserved with a single CAS, written exactly one slot and published the
\* cursor value it loaded plus 2.
C9_EnqueueFrame ==
  [][\A p \in DOMAIN prod :
       Returns(p, "Enqueue") =>
         IF prod'[p].ret = "false"
         THEN WroteNothing(p) /\ UNCHANGED ring
         ELSE prod'[p].ret = "true" /\ WroteOneSlot(p)]_vars

C9_Witness ==
  /\ ctor = "queue" /\ cap = 2 /\ Len(prod) = 2
  /\ prod[1].pc = "idle" /\ prod[1].ret = "false"
  /\ prod[2].pc = "idle" /\ prod[2].ret = "true"
  /\ enqOK = <<ItemOf(2, 0)>>

\* C10: MustEnqueue on a queue that stays full returns an error at its
\* 10000th failed try, never later; a call that returns an error has written
\* nothing, and one that returns nil has written exactly one slot and
\* advanced head by 2. Every call returns.
C10_MustEnqueueGivesUp ==
  /\ [][\A p \in DOMAIN prod :
          /\ prod'[p].attempt < GiveUpAt
          /\ Returns(p, "MustEnqueue") =>
               IF prod'[p].ret = "err"
               THEN /\ prod[p].attempt + 1 = GiveUpAt
                    /\ WroteNothing(p) /\ UNCHANGED ring
               ELSE prod'[p].ret = "nil" /\ WroteOneSlot(p)]_vars
  /\ \A p \in {1} :
       (p \in DOMAIN prod /\ prod[p].pc # "idle" /\ prod[p].op = "MustEnqueue")
         ~> (p \in DOMAIN prod /\ prod[p].pc = "idle")

C10_Witness ==
  /\ ctor = "queue" /\ Len(prod) = 1
  /\ prod[1].pc = "idle" /\ prod[1].ret = "err" /\ head - tail = 2 * cap

\* C11: MustEnqueue on a disruptor returns: a call in progress, on a ring
\* that stays full because its reader workers have exited, ends with the
\* error of the backoff ladder.
C11_BroadcastMustEnqueueReturns ==
  \A p \in {1} :
    (p \in DOMAIN prod /\ prod[p].op = "MustEnqueue" /\ prod[p].pc # "idle")
      ~> (p \in DOMAIN prod /\ prod[p].pc = "idle")

\* C12: a disruptor built with a valid capacity and no reader callback is
\* accepted, and no enqueue call on it panics: Enqueue returns true while
\* fewer than capacity items are in the ring and false from then on.
C12_NoReadersNoPanic ==
  (ctor = "disruptor" /\ IsPowerOfTwo(capArg) /\ rdr = <<>>) =>
    /\ err = "nil"
    /\ ~panicked
    /\ \A p \in DOMAIN prod :
         /\ prod[p].ret = "true" => Len(enqOK) <= cap
         /\ prod[p].ret = "false" => Len(enqOK) = cap

\* C13: once ctx.Done() is closed a reader worker invokes no further
\* callback: at most the one invocation it was entering when the signal came,
\* never a second one, also not in the middle of a batch of published items
\* (a batch read up to an even writer cursor).
C13_NoCallbackAfterCancel ==
  [][\A r \in DOMAIN rdr :
       (cancelled /\ rdr[r].late >= 1 /\ rdr[r].head % 2 = 0) =>
         delivered'[r] = delivered[r]]_vars

\* C14: after ctx is cancelled every reader worker, scheduled fairly,
\* terminates; a terminated worker never moves its cursor and never invokes
\* its callback again.
C14_WorkersTerminate ==
  /\ \A r \in ReaderIds :
       (cancelled /\ r \in DOMAIN rdr) ~> (r \in DOMAIN rdr /\ rdr[r].pc = "exited")
  /\ [][\A r \in DOMAIN rdr :
          rdr[r].pc = "exited" =>
            /\ rdr'[r].pc = "exited"
            /\ rtail'[r] = rtail[r]
            /\ delivered'[r] = delivered[r]]_vars

C14_Witness ==
  /\ ctor = "disruptor" /\ cancelled /\ Len(rdr) = 2
  /\ \A r \in DOMAIN rdr : rdr[r].pc = "exited"
  /\ delivered[1] = <<ItemOf(1, 0)>> /\ delivered[2] = <<>>
  /\ writerCursor = 4

\* C15: MinBarrier.Load on a non-empty barrier whose members do not change
\* returns the least of the members' values, wherever it stands and also
\* when all are equal; on an empty barrier it panics.
C15_LoadIsMinimum ==
  (applied.fn = "MinBarrier.Load" /\ applied.done) =>
    IF applied.arg = <<>>
    THEN applied.panics
    ELSE /\ ~applied.panics
         /\ applied.res \in Range(applied.arg)
         /\ \A i \in DOMAIN applied.arg : applied.res <= applied.arg[i]

C15_Witness ==
  /\ applied.fn = "MinBarrier.Load" /\ applied.done
  /\ applied.arg = <<3, 2, 1>> /\ applied.res = 1 /\ ~applied.panics

\* C16: a Dequeue that finds head equal to tail returns (zero value, false)
\* and has changed neither head, tail nor a slot. When calls do not overlap
\* a Dequeue never waits, it returns false exactly when as many values have
\* been dequeued as enqueued, and the queue is then empty.
C16_DequeueEmpty ==
  [][ctor = "queue" =>
       \A c \in DOMAIN cons :
         /\ (cons[c].pc # "idle" /\ cons'[c].pc = "idle" /\ cons'[c].ret = "false") =>
              /\ cons[c].tail = head /\ cons'[c].res = 0
              /\ UNCHANGED <<ring, deqOK>>
         /\ ~overlap =>
              /\ cons'[c].pc # "yield"
              /\ (cons[c].pc # "idle" /\ cons'[c].pc = "idle") =>
                   /\ cons'[c].ret = "false" <=> Len(deqOK) = Len(enqOK)
                   /\ Len(deqOK') = Len(enqOK) => head' = tail']_vars

C16_Witness ==
  /\ ctor = "queue" /\ ~overlap /\ cap = 2
  /\ enqOK = <<ItemOf(1, 0), ItemOf(1, 1)>> /\ deqOK = enqOK
  /\ head = tail /\ head = 4
  /\ \E c \in DOMAIN cons : cons[c].pc = "idle" /\ cons[c].ret = "false"

\* C17: on a queue with several producers a call whose CAS on head has not
\* succeeded has written no slot, and the values are dequeued in the order in
\* which their producers' reserving CAS succeeded.
C17_OrderOfReservation ==
  ctor = "queue" =>
    /\ \A p \in DOMAIN prod : prod[p].curs = <<>> => prod[p].wrote = <<>>
    /\ IsPrefix(deqOK, casOK)

\* C18: for a power-of-two capacity c and a sequence value s the slot index
\* (s >> 1) & (c - 1) lies in 0 .. c-1; an even s and s + 1 have the same
\* slot; s + 2c has the slot of s, and s + 2k for 0 < k < c has another one.
C18_SlotIndexCycles ==
  (applied.fn = "SlotIndex" /\ applied.done) =>
    LET q == applied.arg[1]
        c == applied.arg[2]
        mask == Sub(c, 1)
    IN /\ applied.res \in 0 .. c - 1
       /\ q % 2 = 0 => SlotIndex(Add(q, 1), mask) = applied.res
       /\ SlotIndex(Add(q, 2 * c), mask) = applied.res
       /\ \A k \in 1 .. c - 1 : SlotIndex(Add(q, 2 * k), mask) # applied.res

C18_Witness ==
  /\ applied.fn = "SlotIndex" /\ applied.done
  /\ applied.arg = <<14, 8>> /\ applied.res = 7

\* The rung of the ladder an attempt number must land on.
C19_Rung(a) ==
  IF a < 5 THEN "spin" ELSE IF a < 20 THEN "yield"
  ELSE IF a < 10000 THEN "sleep" ELSE "err"

\* C19: enqueueBackoff and backoff are the same function of the attempt
\* number (nothing below 5, yield below 20, sleep below 10000, error from
\* 10000 on), and every failed try of a MustEnqueue, on a full ring or on a
\* lost CAS, raises the attempt number by one before the ladder is asked.
C19_AttemptCountsEveryFailure ==
  [][/\ \A a \in {0, 4, 5, 19, 20, 9999, 10000, 10001} :
          enqueueBackoff(a) = C19_Rung(a) /\ backoff(a) = C19_Rung(a)
     /\ \A p \in DOMAIN prod :
          (/\ prod[p].op = "MustEnqueue"
           /\ prod[p].pc \in {"loadTail", "barrier", "cas"}
           /\ prod'[p].pc = "loadHead") =>
            prod'[p].attempt = prod[p].attempt + 1]_vars

\* C20: head, tail and writerCursor never decrease, whatever the number of
\* producers and consumers and however their steps interleave.
C20_CountersMonotonic ==
  [][/\ head' >= head
     /\ tail' >= tail
     /\ writerCursor' >= writerCursor]_vars

\* The producers between their reserving CAS and their publishing store.
Reserving == {p \in DOMAIN prod : prod[p].pc \in {"write", "store"}}

\* C21: no enqueue wins its reservation by a CAS from an odd head or
\* writerCursor, so at most one producer at a time is between its reserving
\* CAS and its publishing store.
C21_OneReservationAtATime ==
  /\ Cardinality(Reserving) <= 1
  /\ \A p \in Reserving : prod[p].head % 2 = 0

\* C22: with one producer, a reader worker invokes its callback only on a
\* slot whose publishing store has happened (the writer cursor has passed the
\* slot's sequence by 2), and it stores no cursor beyond the last published
\* sequence.
C22_OnlyPublishedDelivered ==
  [][(ctor = "disruptor" /\ Len(prod) = 1) =>
       \A r \in DOMAIN rdr :
         /\ delivered'[r] # delivered[r] => rdr[r].tail + 2 <= writerCursor
         /\ rtail'[r] # rtail[r] => rtail'[r] <= writerCursor']_vars

\* The least reader cursor.
MinCursor == CHOOSE m \in Range(rtail) : \A r \in DOMAIN rtail : m <= rtail[r]

\* C23: on a disruptor with readers the writer cursor is never more than
\* 2 * capacity ahead of the slowest reader's cursor: at most capacity
\* published items are waiting for the slowest reader.
C23_FullnessBound ==
  (ctor = "disruptor" /\ err = "nil" /\ rtail # <<>>) =>
    writerCursor - MinCursor <= 2 * cap

C23_Witness ==
  /\ ctor = "disruptor" /\ cap = 1 /\ Len(rtail) = 2
  /\ writerCursor = 2 /\ rtail = <<2, 0>>
  /\ \E p \in DOMAIN prod : prod[p].pc = "idle" /\ prod[p].ret = "false"

\* C24: with one producer, while the producer writes a slot every reader has
\* already been handed the item published in that slot one lap earlier, and
\* no reader is about to read that slot.
C24_SlotReuse ==
  (ctor = "disruptor" /\ Len(prod) = 1) =>
    \A p \in DOMAIN prod :
      prod[p].pc = "write" =>
        \A r \in DOMAIN rdr :
          /\ prod[p].head >= 2 * cap =>
               2 * Len(delivered[r]) > prod[p].head - 2 * cap
          /\ rdr[r].pc = "deliver" =>
               SlotIndex(rdr[r].tail, capMask) # SlotIndex(prod[p].head, capMask)

EvenFloor(q) == q - (q % 2)

\* The slots of the queue that hold a published item not yet dequeued or
\* that a consumer is draining (tail odd), seen by a producer that loaded h.
Occupied(h) ==
  {SlotIndex(q, capMask) : q \in {x \in EvenFloor(tail) .. EvenFloor(h) - 1 : x % 2 = 0}}

\* Producer p reserves its slot or writes it in this step.
ReservesOrWrites(p) ==
  \/ prod[p].pc = "cas" /\ prod'[p].pc = "write"
  \/ prod[p].pc = "write" /\ prod'[p].pc = "store"

Draining == {c \in DOMAIN cons : cons[c].pc \in {"read", "store"}}

\* C26: tail moves only by the CAS of a Dequeue call from the even value t
\* it loaded to t + 1 and by the store of t + 2 by the same call, so tail
\* never returns to a value it left, at most one consumer is between its CAS
\* and its store, and tail is odd exactly then.
C26_ExclusiveDequeue ==
  [][ctor = "queue" =>
       /\ Cardinality(Draining) <= 1
       /\ \A c \in Draining : cons[c].tail % 2 = 0 /\ tail = cons[c].tail + 1
       /\ Draining = {} <=> tail % 2 = 0
       /\ tail' # tail =>
            /\ tail' = tail + 1
            /\ \E c \in DOMAIN cons :
                 /\ cons'[c] # cons[c]
                 /\ \/ cons[c].pc = "cas" /\ cons'[c].pc = "read" /\ tail = cons[c].tail
                    \/ cons[c].pc = "store" /\ cons'[c].pc = "idle"]_vars

C26_Witness ==
  /\ ctor = "queue" /\ Len(cons) = 2 /\ tail = 3
  /\ cons[1].pc = "yield" /\ cons[2].pc = "read" /\ cons[2].tail = 2

C28_Expected(attempt, limit) ==
  IF attempt - 20 > 12 THEN limit
  ELSE IF 1000 * 2^(attempt - 20) > limit THEN limit
  ELSE 1000 * 2^(attempt - 20)

\* C28: on the sleeping rung the producer ladders sleep for
\* min(1 microsecond * 2^(attempt-20), 5 ms) and readerYield for
\* min(1 microsecond * 2^(attempt-20), 1 ms), for every attempt from 20 on:
\* never less than the sleep of a smaller attempt, never zero or negative.
C28_SleepIsCapped ==
  applied.done =>
    /\ applied.fn \in {"enqueueBackoff", "backoff"} =>
         applied.res = C28_Expected(applied.arg[1], 5000000)
    /\ applied.fn = "readerYield" =>
         applied.res = C28_Expected(applied.arg[1], 1000000)

\* C29: branchlessMin returns what MinBarrier.Load returns, the least member
\* value, on every non-empty barrier.
C29_BranchlessIsLoad ==
  (applied.fn = "branchlessMin" /\ applied.done) =>
    /\ applied.res = Load(applied.arg)
    /\ \A i \in DOMAIN applied.arg : applied.res <= applied.arg[i]

\* C30: tail never exceeds head on a queue, whatever the number of producers
\* and consumers, and a Dequeue reserves only a sequence below head.
C30_TailBehindHead ==
  ctor = "queue" =>
    /\ tail <= head
    /\ \A c \in DOMAIN cons : cons[c].pc \in {"read", "store"} => cons[c].tail < head

\* C31: on a disruptor with a single producer every reader cursor is at most
\* the writer cursor in every reachable state, so the difference the
\* fullness test takes, head - readerBarrier.Load(), is never that of a
\* smaller number minus a greater one.
C31_ReaderBehindWriter ==
  (ctor = "disruptor" /\ Len(prod) = 1) =>
    \A r \in DOMAIN rtail : rtail[r] <= writerCursor

\* C32: on a queue of the one-step variant with one producer and one
\* consumer, the k-th Dequeue that returns ok=true (the one for sequence
\* 2(k-1)) returns the item of the Enqueue whose CAS moved head from that
\* sequence to the next: never the slot's earlier content, never the zero
\* value.
C32_OneStepDequeueValue ==
  (ctor = "queue" /\ Len(prod) = 1 /\ Len(cons) = 1) =>
    \A k \in DOMAIN deqOK : k <= Len(casOK) /\ deqOK[k] = casOK[k]

\* C33: one producer on a disruptor whose ctx is never cancelled, every
\* goroutine scheduled fairly: every MustEnqueue call in progress returns
\* nil, and every item an enqueue has published is passed to the callback of
\* every reader.
C33_MustEnqueueReturnsNil ==
  (1 \in DOMAIN prod /\ prod[1].op = "MustEnqueue" /\ prod[1].pc # "idle")
    ~> (1 \in DOMAIN prod /\ prod[1].pc = "idle" /\ prod[1].ret = "nil")

C33_PublishedIsDelivered ==
  \A x \in {ItemOf(1, k) : k \in 0 .. MaxItems - 1} :
    (x \in Range(enqOK))
      ~> (\A r \in DOMAIN rdr : x \in Range(delivered[r]))

C33_BroadcastProgress ==
  []~cancelled => (C33_MustEnqueueReturnsNil /\ C33_PublishedIsDelivered)

============================================================================
